---- MODULE Spec2Model ----
(***************************************************************************)
(* A model of social-ai-agent: the SQLite-backed job queue                 *)
(* (src/queue/index.ts), the polling worker (src/queue/worker.ts), the     *)
(* approval services (src/services/post.service.ts, slack.service.ts) and  *)
(* the circuit breaker (src/circuit-breaker/index.ts).                     *)
(*                                                                         *)
(* Time is the value of Date.now() in milliseconds.  The ISO strings the   *)
(* program stores (toISOString) are fixed-width UTC, so comparing them as  *)
(* strings, as SQLite does, is comparing the instants they were made from; *)
(* a stored time is modelled by that instant.                              *)
(***************************************************************************)
EXTENDS Integers, Sequences, FiniteSets, TLC

VARIABLES
  now,          \* Date.now(), in milliseconds
  job_queue,    \* the job_queue table: job id -> row
  jobsIssued,   \* how many job ids generateUUID() has handed out
  ret,          \* what the last JobQueue method call returned: <<v>>, or <<>> for none
  failCount,    \* per job: markFailed calls since enqueue / retryDead
  posts,        \* the posts table: post id -> row
  decided,      \* per post: the outcomes handleSlackAction has returned
  inflight,     \* the ticks in progress: what each is processing
  intervalId,   \* per dispatcher process: is the poll timer set
  leaked,       \* per dispatcher process: timers set whose handle was overwritten
  tweets,       \* per post: how often the publisher was invoked / succeeded
  cb,           \* the CircuitBreaker instance's fields
  config,       \* its CircuitBreakerConfig
  calls,        \* the execute() calls: where each caller's latest call is
  streak,       \* failures of the wrapped operation since its last success
  halfOpen,     \* what has happened since the breaker last became HALF_OPEN
  shutdown,     \* per dispatcher process: how far shutdown() has got
  selected      \* per dispatcher process: the row its markFailed has read and not yet written

vars == <<now, job_queue, jobsIssued, ret, failCount, posts, decided,
          inflight, intervalId, leaked, tweets, cb, config, calls, streak,
          halfOpen, shutdown, selected>>

queueVars   == <<job_queue, jobsIssued, ret, failCount>>
postVars    == <<posts, decided, tweets>>
workerVars  == <<inflight, intervalId, leaked, shutdown, selected>>
breakerVars == <<cb, config, calls, streak, halfOpen>>

----------------------------------------------------------------------------
(* Bounds of the model *)

MaxJobs == 2          \* jobs enqueued through the bare JobQueue interface
MaxPosts == 1         \* posts generated
NumTicks == 2         \* ticks that can be in progress at once
NumDispatchers == 2   \* processes polling the same store
MaxFails == 3         \* markFailed calls followed per job
MaxDecisions == 2     \* Slack actions followed per post
MaxTweets == 2        \* publisher invocations counted per post
NumCallers == 2       \* concurrent callers of CircuitBreaker.execute

(* Program constants *)

STUCK_THRESHOLD_MINUTES == 5
BASE_BACKOFF_SECONDS == 30
DefaultMaxRetries == 3

(* The instants the clock is observed at.  At 60000 a job that failed at 0 *)
(* is due and one enqueued with a minute's delay is exactly due; at 360000 *)
(* a job claimed at 0 is stuck and one claimed at 60000 is exactly five    *)
(* minutes old.                                                            *)
ClockPoints == {0, 60000, 360000}

NULL == "NULL"

JobIds  == 1..(IF MaxJobs > 2 * MaxPosts THEN MaxJobs ELSE 2 * MaxPosts)
PostIds == 1..MaxPosts
MaxLeaked == 1        \* timers of one process that nothing names any more

Ticks   == 1..NumTicks
Dispatchers == 1..NumDispatchers
Callers == 1..NumCallers

JobTypes == {"post_to_twitter", "send_slack_approval"}

RECURSIVE Pow2(_)
Pow2(n) == IF n <= 0 THEN 1 ELSE 2 * Pow2(n - 1)

----------------------------------------------------------------------------
(* Job payloads.  A payload is stored as JSON text and parsed back by the  *)
(* worker; the text is modelled as the sequence of its key/value pairs.    *)

JsonStringify(payload) ==
  IF "platform" \in DOMAIN payload
    THEN << <<"postId", payload.postId>>, <<"message", payload.message>>,
            <<"platform", payload.platform>> >>
    ELSE << <<"postId", payload.postId>>, <<"message", payload.message>> >>

\* JSON.parse throws a SyntaxError on text that was cut short
JsonDecodes(text) == \A i \in DOMAIN text : Len(text[i]) = 2

JsonParse(text) ==
  [k \in {text[i][1] : i \in DOMAIN text} |->
     LET i == CHOOSE n \in DOMAIN text : text[n][1] = k IN text[i][2]]

----------------------------------------------------------------------------
(* JobQueue: each method as a function of the table.  A row holds the      *)
(* columns the program reads back; created_at, which is written once by    *)
(* enqueue and read by no statement, is left out.                          *)

\* opts.maxRetries ?? 3
OptMaxRetries(opts) ==
  IF opts.maxRetries = <<>> THEN DefaultMaxRetries ELSE opts.maxRetries[1]

\* variant: opts.delayMs is not looked at
NextRunAtIgnoresDelay(opts, t) == t

\* opts.delayMs ? now + delayMs : now   (undefined and 0 are both falsy)
OptNextRunAt(opts, t) ==
  IF opts.delayMs # <<>> /\ opts.delayMs[1] # 0 THEN t + opts.delayMs[1] ELSE t

EnqueueRow(id, type, payload, opts, t) ==
  [ id          |-> id,
    type        |-> type,
    payload     |-> JsonStringify(payload),
    status      |-> "pending",
    attempts    |-> 0,
    max_retries |-> OptMaxRetries(opts),
    last_error  |-> NULL,
    next_run_at |-> OptNextRunAt(opts, t),
    updated_at  |-> t ]

Enqueued(q, id, type, payload, opts, t) ==
  q @@ (id :> EnqueueRow(id, type, payload, opts, t))

\* variant: the SELECT without its status = 'pending' condition
DequeueDropsStatusGuard(q, t) ==
  { id \in DOMAIN q :
      /\ q[id].next_run_at <= t
      /\ q[id].status \in {"pending", "processing"}
      /\ \A o \in DOMAIN q :
           (o # id /\ q[o].status \in {"pending", "processing"} /\ q[o].next_run_at <= t)
             => q[id].next_run_at <= q[o].next_run_at }

\* variant: the SELECT without its next_run_at <= now condition
DequeueIgnoresDue(q, t) ==
  { id \in DOMAIN q :
      /\ q[id].status = "pending"
      /\ \A o \in DOMAIN q :
           (o # id /\ q[o].status = "pending")
             => q[id].next_run_at <= q[o].next_run_at }

\* The rows the inner SELECT of dequeueNext may return: pending, due, and
\* first in ORDER BY next_run_at ASC.  Rows with equal next_run_at come in
\* an order SQL leaves open, so each of them may be the LIMIT 1 row.
DequeueCandidates(q, t) ==
  { id \in DOMAIN q :
      /\ q[id].status = "pending"
      /\ q[id].next_run_at <= t
      /\ \A o \in DOMAIN q :
           (o # id /\ q[o].status = "pending" /\ q[o].next_run_at <= t)
             => q[id].next_run_at <= q[o].next_run_at }

\* UPDATE ... SET status = 'processing', updated_at = now WHERE id = (...)
Dequeued(q, id, t) ==
  [q EXCEPT ![id].status = "processing", ![id].updated_at = t]

\* markCompleted: UPDATE ... WHERE id = ?  (no row, no change)
MarkCompleted(q, id, t) ==
  IF id \notin DOMAIN q THEN q
  ELSE [q EXCEPT ![id].status = "completed", ![id].updated_at = t]

\* variant: the backoff does not grow with the attempts
BackoffIgnoresAttempts(attemptsBefore) == BASE_BACKOFF_SECONDS

\* BASE_BACKOFF_SECONDS * Math.pow(2, job.attempts)
BackoffSeconds(attemptsBefore) == BASE_BACKOFF_SECONDS * Pow2(attemptsBefore)

\* variant: a failure is stored as status failed
MarkFailedStoresFailed(q, job, message, t) ==
  IF job.id \notin DOMAIN q THEN q
  ELSE [q EXCEPT ![job.id].status = "failed",
                 ![job.id].attempts = job.attempts + 1,
                 ![job.id].last_error = message,
                 ![job.id].updated_at = t]

\* variant: markFailed always reschedules, whatever max_retries is
MarkFailedNeverDead(q, job, message, t) ==
  IF job.id \notin DOMAIN q THEN q
  ELSE [q EXCEPT ![job.id].status = "pending",
                 ![job.id].attempts = job.attempts + 1,
                 ![job.id].last_error = message,
                 ![job.id].next_run_at = t + BackoffSeconds(job.attempts) * 1000,
                 ![job.id].updated_at = t]

\* markFailed past its SELECT: job is the row the SELECT returned, q the
\* table its UPDATE ... WHERE id = ? runs on
MarkFailedUpdate(q, job, message, t) ==
  LET id == job.id
      attempts == job.attempts + 1
  IN IF id \notin DOMAIN q THEN q
     ELSE IF attempts >= job.max_retries
       THEN [q EXCEPT ![id].status = "dead",
                      ![id].attempts = attempts,
                      ![id].last_error = message,
                      ![id].updated_at = t]
       ELSE [q EXCEPT ![id].status = "pending",
                      ![id].attempts = attempts,
                      ![id].last_error = message,
                      ![id].next_run_at = t + BackoffSeconds(job.attempts) * 1000,
                      ![id].updated_at = t]

\* markFailed with nothing between its SELECT and its UPDATE
MarkFailed(q, id, message, t) ==
  IF id \notin DOMAIN q THEN q
  ELSE MarkFailedUpdate(q, q[id], message, t)

\* variant: retryDead without its status check
RetryDeadAnyStatus(q, id) == id \in DOMAIN q

\* !(!job || job.status !== 'dead')
RetryDeadOk(q, id) == id \in DOMAIN q /\ q[id].status = "dead"

RetryDead(q, id, t) ==
  IF ~RetryDeadOk(q, id) THEN q
  ELSE [q EXCEPT ![id].status = "pending",
                 ![id].attempts = 0,
                 ![id].last_error = NULL,
                 ![id].next_run_at = t,
                 ![id].updated_at = t]

DiscardJob(q, id) == [j \in DOMAIN q \ {id} |-> q[j]]

\* Date.now() - STUCK_THRESHOLD_MINUTES * 60 * 1000
StuckCutoff(t) == t - STUCK_THRESHOLD_MINUTES * 60 * 1000

\* variant: resetStuck without its updated_at condition
StuckIgnoresAge(q, t) == { id \in DOMAIN q : q[id].status = "processing" }

\* WHERE status = 'processing' AND updated_at < cutoff
Stuck(q, t) ==
  { id \in DOMAIN q :
      q[id].status = "processing" /\ q[id].updated_at < StuckCutoff(t) }

ResetStuck(q, t) ==
  [id \in DOMAIN q |->
     IF id \in Stuck(q, t)
       THEN [q[id] EXCEPT !.status = "pending", !.updated_at = t]
       ELSE q[id]]

----------------------------------------------------------------------------
(* The clock *)

\* A tick whose processJob throws before its first await (JSON.parse, the
\* default case) reaches markFailed in the same turn of the event loop: no
\* measurable time passes meanwhile.
Advance ==
  /\ \A k \in Ticks : inflight[k].type \in JobTypes \cup {"none"}
  /\ \E t \in ClockPoints : t > now /\ now' = t
  /\ UNCHANGED <<queueVars, postVars, workerVars, breakerVars>>

----------------------------------------------------------------------------
(* The JobQueue interface called directly, as tests/unit/queue.test.ts     *)
(* does: any caller, any method, any order.                                *)

\* const payload = { postId: 'post-1', message: 'Hello world' }
TestPayload == [postId |-> 1, message |-> "Hello world"]

EnqueueOpts ==
  [maxRetries : {<<>>, <<0>>, <<1>>}, delayMs : {<<>>, <<0>>, <<60000>>}]

ErrorMessages == {"transient error"}

\* queue.enqueue('post_to_twitter', payload, opts)
EnqueueCall(opts) ==
  LET id == jobsIssued + 1 IN
  /\ job_queue' = Enqueued(job_queue, id, "post_to_twitter", TestPayload, opts, now)
  /\ jobsIssued' = id
  /\ failCount' = (id :> 0) @@ failCount
  /\ ret' = <<"enqueue", id>>
  /\ UNCHANGED <<now, postVars, workerVars, breakerVars>>

QEnqueue ==
  /\ jobsIssued < MaxJobs
  /\ \E opts \in EnqueueOpts : EnqueueCall(opts)

QDequeueNext ==
  /\ \/ \E id \in DequeueCandidates(job_queue, now) :
          /\ job_queue' = Dequeued(job_queue, id, now)
          /\ ret' = <<"dequeueNext", job_queue'[id]>>
     \/ /\ DequeueCandidates(job_queue, now) = {}
        /\ job_queue' = job_queue
        /\ ret' = <<"dequeueNext">>
  /\ UNCHANGED <<now, jobsIssued, failCount, postVars, workerVars, breakerVars>>

QMarkCompleted ==
  /\ \E id \in JobIds :
       /\ job_queue' = MarkCompleted(job_queue, id, now)
       /\ ret' = <<"markCompleted">>
  /\ UNCHANGED <<now, jobsIssued, failCount, postVars, workerVars, breakerVars>>

QMarkFailed ==
  /\ \E id \in JobIds, message \in ErrorMessages :
       /\ id \in DOMAIN job_queue => failCount[id] < MaxFails
       /\ job_queue' = MarkFailed(job_queue, id, message, now)
       /\ failCount' = IF id \in DOMAIN job_queue
                         THEN [failCount EXCEPT ![id] = @ + 1] ELSE failCount
       /\ ret' = <<"markFailed">>
  /\ UNCHANGED <<now, jobsIssued, postVars, workerVars, breakerVars>>

\* queue.retryDead(id)
RetryDeadCall(id) ==
  /\ job_queue' = RetryDead(job_queue, id, now)
  /\ failCount' = IF RetryDeadOk(job_queue, id)
                    THEN [failCount EXCEPT ![id] = 0] ELSE failCount
  /\ ret' = <<"retryDead", RetryDeadOk(job_queue, id)>>
  /\ UNCHANGED <<now, jobsIssued, postVars, workerVars, breakerVars>>

QRetryDead == \E id \in JobIds : RetryDeadCall(id)

QDiscardJob ==
  /\ \E id \in JobIds :
       /\ job_queue' = DiscardJob(job_queue, id)
       /\ ret' = <<"discardJob", id \in DOMAIN job_queue>>
  /\ UNCHANGED <<now, jobsIssued, failCount, postVars, workerVars, breakerVars>>

QResetStuck ==
  /\ job_queue' = ResetStuck(job_queue, now)
  /\ ret' = <<"resetStuck", Cardinality(Stuck(job_queue, now))>>
  /\ UNCHANGED <<now, jobsIssued, failCount, postVars, workerVars, breakerVars>>

----------------------------------------------------------------------------
(* Initial state: empty tables, no worker started, a CLOSED breaker *)

NoTick == [proc |-> 0, job |-> 0, type |-> "none", postId |-> 0]

\* new CircuitBreaker({ serviceName: 'twitter', ... })
TwitterCircuitConfig ==
  [serviceName |-> "twitter", failureThreshold |-> 3,
   resetTimeoutMs |-> 60000, successThreshold |-> 1]

\* new CircuitBreaker({ serviceName: 'openai', ... })
OpenaiCircuitConfig ==
  [serviceName |-> "openai", failureThreshold |-> 3,
   resetTimeoutMs |-> 120000, successThreshold |-> 2]

\* probes: the callers whose outstanding call was let through by a HALF_OPEN
\* breaker; successes: calls that resolved since the breaker became
\* HALF_OPEN; probeSuccesses: those of them that were probes; reopened: a
\* failure has since sent the breaker back to OPEN
NoProbes == [probes |-> {}, successes |-> 0, probeSuccesses |-> 0,
             reopened |-> FALSE]

\* no signal received: phase running; after SIGTERM/SIGINT: signalled, at
\* the time of the signal; after process.exit(code): exited, with the code
NoShutdown == [phase |-> "running", at |-> <<>>, code |-> <<>>]

NoDecisions == [approved |-> 0, rejected |-> 0, already_actioned |-> 0,
                action |-> NULL, actor |-> NULL]

NoTweets == [invoked |-> FALSE, published |-> 0]

Init ==
  /\ now = 0
  /\ job_queue = <<>>
  /\ jobsIssued = 0
  /\ ret = <<>>
  /\ failCount = <<>>
  /\ posts = <<>>
  /\ decided = [p \in PostIds |-> NoDecisions]
  /\ inflight = [k \in Ticks |-> NoTick]
  /\ intervalId = [d \in Dispatchers |-> FALSE]
  /\ leaked = [d \in Dispatchers |-> 0]
  /\ tweets = [p \in PostIds |-> NoTweets]
  /\ cb = [state |-> "CLOSED", failureCount |-> 0, successCount |-> 0,
           lastFailureTime |-> <<>>]
  /\ config = TwitterCircuitConfig
  /\ calls = [c \in Callers |-> "idle"]
  /\ streak = 0
  /\ halfOpen = NoProbes
  /\ shutdown = [d \in Dispatchers |-> NoShutdown]
  /\ selected = [d \in Dispatchers |-> <<>>]

NextQueueOps ==
  \/ QEnqueue
  \/ QDequeueNext
  \/ QMarkCompleted
  \/ QMarkFailed
  \/ QRetryDead
  \/ QDiscardJob
  \/ QResetStuck
  \/ Advance

SpecQueueOps == Init /\ [][NextQueueOps]_vars

----------------------------------------------------------------------------
(* post.service.ts: approvePost and rejectPost.  Each runs in one          *)
(* db.transaction of the synchronous better-sqlite3 driver, so its read    *)
(* and its write are one step.                                             *)

\* post.status === 'approved' || post.status === 'posted' ? 'approved' : 'rejected'
PreviousAction(status) ==
  IF status = "approved" \/ status = "posted" THEN "approved" ELSE "rejected"

\* `The post has already been ${previousAction}`
AlreadyActionedMessage(status) ==
  IF PreviousAction(status) = "approved"
    THEN "The post has already been approved"
    ELSE "The post has already been rejected"

\* A SlackActionResult; a field the result does not have is <<>>.
Result(outcome, message, jobId) ==
  [outcome |-> outcome, message |-> message, jobId |-> jobId]

\* what handleSlackAction returns after approvePost / rejectPost returned
\* the given outcome on the table P
SlackActionResult(P, postId, outcome, jobId) ==
  IF outcome = "not_found" THEN Result(outcome, <<"Post not found">>, <<>>)
  ELSE IF outcome = "already_actioned"
    THEN Result(outcome, <<AlreadyActionedMessage(P[postId].status)>>, <<>>)
  ELSE IF outcome = "rejected" THEN Result(outcome, <<>>, <<>>)
  ELSE Result("approved_and_queued", <<>>, <<jobId>>)

\* variant: approvePost without its status check
ApproveOutcomeNoGuard(P, postId) ==
  IF postId \notin DOMAIN P THEN "not_found" ELSE "approved"

ApproveOutcome(P, postId) ==
  IF postId \notin DOMAIN P THEN "not_found"
  ELSE IF P[postId].status # "pending" THEN "already_actioned"
  ELSE "approved"

Approved(P, postId, approvedBy, t) ==
  [P EXCEPT ![postId].status = "approved",
            ![postId].approved_at = <<t>>,
            ![postId].approved_by = approvedBy]

\* variant: rejectPost without its status check
RejectOutcomeNoGuard(P, postId) ==
  IF postId \notin DOMAIN P THEN "not_found" ELSE "rejected"

RejectOutcome(P, postId) ==
  IF postId \notin DOMAIN P THEN "not_found"
  ELSE IF P[postId].status # "pending" THEN "already_actioned"
  ELSE "rejected"

Rejected(P, postId, rejectedBy) ==
  [P EXCEPT ![postId].status = "rejected",
            ![postId].rejected_by = rejectedBy]

\* variant: the publish UPDATE also rewrites the message
PostedRewritesMessage(P, postId, tweetId) ==
  IF postId \notin DOMAIN P THEN P
  ELSE [P EXCEPT ![postId].status = "posted", ![postId].external_id = tweetId,
                 ![postId].message = tweetId]

\* publishToSocial after postTweet resolved
Posted(P, postId, tweetId) ==
  IF postId \notin DOMAIN P THEN P
  ELSE [P EXCEPT ![postId].status = "posted", ![postId].external_id = tweetId]

\* publishToSocial after postTweet threw
FailedPost(P, postId) ==
  IF postId \notin DOMAIN P THEN P
  ELSE [P EXCEPT ![postId].status = "failed_post"]

\* handleSendSlackApproval after sendApprovalMessage resolved
ApprovalSent(P, postId, metadata) ==
  IF postId \notin DOMAIN P THEN P
  ELSE [P EXCEPT ![postId].approval_source = metadata]

----------------------------------------------------------------------------
(* generatePost *)

PlatformSlugs == {"x"}          \* the seeded social_platforms rows
LlmContent == "Mocked post content"

PostRow(id, content) ==
  [ id              |-> id,
    message         |-> content,
    status          |-> "pending",
    external_id     |-> NULL,
    approved_at     |-> <<>>,
    approved_by     |-> NULL,
    rejected_by     |-> NULL,
    approval_source |-> NULL,
    llm_provider    |-> "openai",
    llm_model       |-> "gpt-4o-mini",
    prompt          |-> "prompt",
    raw_output      |-> "{}" ]

NoOpts == [maxRetries |-> <<>>, delayMs |-> <<>>]

Slugs == {"x", "nonexistent"}
LlmOutcomes == {"resolves", "throws"}

\* variant: a failed generation is not noticed
GenerateThrowsOnlyOnPlatform(slug, llm) == slug \notin PlatformSlugs

\* generatePost throws before its INSERT: if (!platform) throw ..., or the
\* awaited llmAdapter.generatePost rejects
GenerateThrows(slug, llm) == slug \notin PlatformSlugs \/ llm = "throws"

\* generatePost(query, slug), the provider's call ending as llm says
GeneratePostCall(slug, llm) ==
  /\ IF GenerateThrows(slug, llm)
       THEN UNCHANGED <<posts, job_queue, jobsIssued, failCount>>
       ELSE LET postId == Cardinality(DOMAIN posts) + 1
                id == jobsIssued + 1
            IN /\ posts' = posts @@ (postId :> PostRow(postId, LlmContent))
               /\ job_queue' = Enqueued(job_queue, id, "send_slack_approval",
                                  [postId |-> postId, message |-> LlmContent,
                                   platform |-> "X"], NoOpts, now)
               /\ jobsIssued' = id
               /\ failCount' = (id :> 0) @@ failCount
  /\ UNCHANGED <<now, ret, decided, tweets, workerVars, breakerVars>>

GeneratePost ==
  \E slug \in Slugs, llm \in LlmOutcomes :
    /\ GenerateThrows(slug, llm) \/ Cardinality(DOMAIN posts) < MaxPosts
    /\ GeneratePostCall(slug, llm)

----------------------------------------------------------------------------
(* slack.service.ts: handleSlackAction.  It awaits nothing, so one call    *)
(* runs from its first statement to its return without interleaving.       *)

UserIds == {"U123"}
UserNames == {<<>>, <<"alice">>}     \* undefined, or a name

\* userName || userId
Actor(userId, userName) == IF userName # <<>> THEN userName[1] ELSE userId

\* variant: the approve path enqueues past an already_actioned outcome
EnqueueAfterAnyApprove(outcome) == outcome # "not_found"

\* the approve path reaches queue.enqueue only past the early return
EnqueuesTwitterJob(outcome) == outcome = "approved"

Decisions(p) ==
  decided[p].approved + decided[p].rejected + decided[p].already_actioned

Noted(p, outcome, action, actor) ==
  [decided EXCEPT
     ![p] = IF outcome = "approved"
              THEN [@ EXCEPT !.approved = @ + 1, !.action = action, !.actor = actor]
            ELSE IF outcome = "rejected"
              THEN [@ EXCEPT !.rejected = @ + 1, !.action = action, !.actor = actor]
            ELSE IF outcome = "already_actioned"
              THEN [@ EXCEPT !.already_actioned = @ + 1]
            ELSE @]

RejectAction(postId, actor) ==
  LET outcome == RejectOutcome(posts, postId) IN
  /\ posts' = IF outcome = "rejected" THEN Rejected(posts, postId, actor) ELSE posts
  /\ decided' = Noted(postId, outcome, "reject", actor)
  /\ UNCHANGED <<job_queue, jobsIssued, failCount>>

ApproveAction(postId, actor) ==
  LET outcome == ApproveOutcome(posts, postId) IN
  /\ posts' = IF outcome = "approved" THEN Approved(posts, postId, actor, now) ELSE posts
  /\ decided' = Noted(postId, outcome, "approve", actor)
  /\ IF EnqueuesTwitterJob(outcome)
       THEN LET id == jobsIssued + 1 IN
            /\ job_queue' = Enqueued(job_queue, id, "post_to_twitter",
                               [postId |-> postId, message |-> posts[postId].message],
                               NoOpts, now)
            /\ jobsIssued' = id
            /\ failCount' = (id :> 0) @@ failCount
       ELSE UNCHANGED <<job_queue, jobsIssued, failCount>>

\* what handleSlackAction(actionId, postId, ...) returns in the current state
ServiceResult(actionId, postId) ==
  SlackActionResult(posts, postId,
                    IF actionId = "approve_" THEN ApproveOutcome(posts, postId)
                                             ELSE RejectOutcome(posts, postId),
                    jobsIssued + 1)

\* the writes of handleSlackAction(actionId, postId, userId, userName)
SlackActionWrites(actionId, postId, actor) ==
  /\ Decisions(postId) < MaxDecisions
  /\ IF actionId = "approve_"
       THEN ApproveAction(postId, actor)
       ELSE RejectAction(postId, actor)

HandleSlackAction ==
  /\ \E actionId \in {"approve_", "reject_"}, postId \in PostIds,
        userId \in UserIds, userName \in UserNames :
       /\ SlackActionWrites(actionId, postId, Actor(userId, userName))
       /\ ret' = <<"handleSlackAction", postId, ServiceResult(actionId, postId)>>
  /\ UNCHANGED <<now, tweets, workerVars, breakerVars>>

----------------------------------------------------------------------------
(* queue/worker.ts.  A tick claims a job and runs processJob up to the     *)
(* await of the external call (Slack's chat.postMessage, or postTweet);    *)
(* the call's outcome resumes it.  postTweet's outcome stands for the      *)
(* Twitter call behind its circuit breaker: it resolves with a tweet id or *)
(* throws (the API failed, or the breaker was open).  setInterval starts a *)
(* tick every POLL_INTERVAL_MS whether or not the last one has returned.   *)

\* variant: every job goes to the publish handler
PublishesEveryJob(type) == "post_to_twitter"

\* variant: the default case runs a handler instead of throwing
HandlesByDefault(type) == IF type \in JobTypes THEN type ELSE "send_slack_approval"

\* processJob: switch (job.type)
Handles(type) == IF type \in JobTypes THEN type ELSE "unknown"

\* processJob up to its first await: JSON.parse, then the switch
TickOf(d, job) ==
  IF JsonDecodes(job.payload)
    THEN [proc |-> d, job |-> job.id, type |-> Handles(job.type),
          postId |-> JsonParse(job.payload).postId]
    ELSE [proc |-> d, job |-> job.id, type |-> "SyntaxError", postId |-> 0]

\* err.message of what processJob throws
Thrown(type) ==
  IF type = "unknown" THEN {"Unknown job type"}
  ELSE IF type = "SyntaxError" THEN {"Unexpected end of JSON input"}
  ELSE ErrorMessages

FreeTicks == { k \in Ticks : inflight[k] = NoTick }

Holders(id) == { k \in Ticks : inflight[k] # NoTick /\ inflight[k].job = id }

\* startWorker: const recovered = queue.resetStuck()
StartWorkerReset(q, t) == ResetStuck(q, t)

\* startWorker: resetStuck, then intervalId = setInterval(...); a timer that
\* intervalId already names stays set and is named by nothing any more
StartWorkerCall(d) ==
  /\ job_queue' = StartWorkerReset(job_queue, now)
  /\ leaked' = [leaked EXCEPT ![d] = IF intervalId[d] THEN @ + 1 ELSE @]
  /\ intervalId' = [intervalId EXCEPT ![d] = TRUE]
  /\ UNCHANGED <<now, jobsIssued, ret, failCount, postVars, inflight, shutdown,
                 selected, breakerVars>>

\* stopWorker: if (intervalId) { clearInterval(intervalId); intervalId = null }
StopWorkerCall(d) ==
  /\ intervalId' = [intervalId EXCEPT ![d] = FALSE]
  /\ UNCHANGED <<now, queueVars, postVars, inflight, leaked, shutdown, selected,
                 breakerVars>>

\* the call in the callback of app.listen, once per process
StartWorker(d) ==
  /\ ~intervalId[d]
  /\ StartWorkerCall(d)

\* the call in shutdown()
StopWorker(d) ==
  /\ intervalId[d]
  /\ StopWorkerCall(d)

\* process.exit in shutdown(), or a crash: the process's ticks end with it
ProcessExit(d) ==
  /\ intervalId[d] \/ \E k \in Ticks : inflight[k].proc = d
  /\ intervalId' = [intervalId EXCEPT ![d] = FALSE]
  /\ leaked' = [leaked EXCEPT ![d] = 0]
  /\ inflight' = [k \in Ticks |-> IF inflight[k].proc = d THEN NoTick ELSE inflight[k]]
  /\ UNCHANGED <<now, queueVars, postVars, shutdown, selected, breakerVars>>

Tick(d) ==
  /\ intervalId[d] \/ leaked[d] > 0
  /\ \/ /\ DequeueCandidates(job_queue, now) = {}
        /\ UNCHANGED <<job_queue, inflight, tweets>>
     \/ /\ FreeTicks # {}
        /\ \E id \in DequeueCandidates(job_queue, now) :
             LET k == CHOOSE f \in FreeTicks : \A g \in FreeTicks : f <= g
                 q == Dequeued(job_queue, id, now)
                 tick == TickOf(d, q[id])
             IN /\ job_queue' = q
                /\ inflight' = [inflight EXCEPT ![k] = tick]
                /\ tweets' = IF tick.type = "post_to_twitter"
                               THEN [tweets EXCEPT ![tick.postId].invoked = TRUE]
                               ELSE tweets
  /\ UNCHANGED <<now, jobsIssued, ret, failCount, posts, decided, intervalId, leaked, shutdown, selected, breakerVars>>

TweetId == "tweet-123"
SlackMetadata == "{channel,messageTs}"

\* processJob returned: queue.markCompleted(job.id)
HandlerResolves(k) ==
  LET tick == inflight[k] IN
  /\ tick # NoTick
  /\ tick.type \in JobTypes
  /\ IF tick.type = "post_to_twitter"
       THEN /\ tweets[tick.postId].published < MaxTweets
            /\ posts' = Posted(posts, tick.postId, TweetId)
            /\ tweets' = [tweets EXCEPT ![tick.postId].published = @ + 1]
       ELSE /\ posts' = ApprovalSent(posts, tick.postId, SlackMetadata)
            /\ tweets' = tweets
  /\ job_queue' = MarkCompleted(job_queue, tick.job, now)
  /\ inflight' = [inflight EXCEPT ![k] = NoTick]
  /\ UNCHANGED <<now, jobsIssued, ret, failCount, decided, intervalId, leaked, shutdown, selected, breakerVars>>

\* processJob threw: queue.markFailed(job.id, err)
HandlerThrows(k) ==
  LET tick == inflight[k] IN
  /\ tick # NoTick
  /\ failCount[tick.job] < MaxFails
  /\ posts' = IF tick.type = "post_to_twitter"
                THEN FailedPost(posts, tick.postId) ELSE posts
  /\ \E message \in Thrown(tick.type) :
       job_queue' = MarkFailed(job_queue, tick.job, message, now)
  /\ failCount' = [failCount EXCEPT ![tick.job] = @ + 1]
  /\ inflight' = [inflight EXCEPT ![k] = NoTick]
  /\ UNCHANGED <<now, jobsIssued, ret, decided, tweets, intervalId, leaked, shutdown, selected, breakerVars>>

\* an operator replays a dead job
RetryDeadJob ==
  /\ \E id \in DOMAIN job_queue :
       /\ RetryDeadOk(job_queue, id)
       /\ job_queue' = RetryDead(job_queue, id, now)
       /\ failCount' = [failCount EXCEPT ![id] = 0]
  /\ UNCHANGED <<now, jobsIssued, ret, postVars, workerVars, breakerVars>>

Next ==
  \/ GeneratePost
  \/ HandleSlackAction
  \/ \E d \in Dispatchers : StartWorker(d)
  \/ \E d \in Dispatchers : StopWorker(d)
  \/ \E d \in Dispatchers : ProcessExit(d)
  \/ \E d \in Dispatchers : Tick(d)
  \/ \E k \in Ticks : HandlerResolves(k)
  \/ \E k \in Ticks : HandlerThrows(k)
  \/ RetryDeadJob
  \/ Advance

Spec == Init /\ [][Next]_vars

----------------------------------------------------------------------------
(* circuit-breaker/index.ts.  execute() decides at once whether to run the *)
(* wrapped operation; an admitted call is "running" until the operation    *)
(* resolves or rejects, and other calls may be made meanwhile.             *)

\* makeBreaker({ failureThreshold: 1, resetTimeoutMs: 500 }) of the unit tests
TestCircuitConfig ==
  [serviceName |-> "test-service", failureThreshold |-> 1,
   resetTimeoutMs |-> 500, successThreshold |-> 2]

BreakerConfigs == {TwitterCircuitConfig, OpenaiCircuitConfig, TestCircuitConfig}

\* Date.now() - (this.lastFailureTime ?? 0)
Elapsed(b, t) == t - (IF b.lastFailureTime = <<>> THEN 0 ELSE b.lastFailureTime[1])

\* execute() throws CircuitOpenError: OPEN and the reset timeout not yet over
ShortCircuits(b, cfg, t) ==
  b.state = "OPEN" /\ ~(Elapsed(b, t) >= cfg.resetTimeoutMs)

\* variant: execute() lets the call through without leaving OPEN
EnteredStaysOpen(b, cfg, t) == b

\* the breaker as execute() leaves it before calling fn()
Entered(b, cfg, t) ==
  IF b.state = "OPEN" /\ Elapsed(b, t) >= cfg.resetTimeoutMs
    THEN [b EXCEPT !.state = "HALF_OPEN", !.successCount = 0]
    ELSE b

\* variant: one success closes a HALF_OPEN breaker
OnSuccessClosesAtOnce(b, cfg) ==
  LET b1 == [b EXCEPT !.failureCount = 0] IN
  IF b1.state = "HALF_OPEN"
    THEN [b1 EXCEPT !.state = "CLOSED", !.successCount = 0]
    ELSE b1

\* variant: a success outside HALF_OPEN leaves failureCount alone
OnSuccessKeepsFailureCount(b, cfg) ==
  IF b.state = "HALF_OPEN"
    THEN LET b2 == [b EXCEPT !.successCount = @ + 1] IN
         IF b2.successCount >= cfg.successThreshold
           THEN [b2 EXCEPT !.state = "CLOSED", !.successCount = 0,
                           !.failureCount = 0]
           ELSE b2
    ELSE b

\* onSuccess()
OnSuccess(b, cfg) ==
  LET b1 == [b EXCEPT !.failureCount = 0] IN
  IF b1.state = "HALF_OPEN"
    THEN LET b2 == [b1 EXCEPT !.successCount = @ + 1] IN
         IF b2.successCount >= cfg.successThreshold
           THEN [b2 EXCEPT !.state = "CLOSED", !.successCount = 0]
           ELSE b2
    ELSE b1

\* variant: opens one failure late
OnFailureOpensLate(b, cfg, t) ==
  LET b1 == [b EXCEPT !.lastFailureTime = <<t>>, !.successCount = 0] IN
  IF b1.state = "HALF_OPEN"
    THEN [b1 EXCEPT !.state = "OPEN"]
    ELSE LET b2 == [b1 EXCEPT !.failureCount = @ + 1] IN
         IF b2.failureCount > cfg.failureThreshold
           THEN [b2 EXCEPT !.state = "OPEN"]
           ELSE b2

\* variant: HALF_OPEN failures are counted like CLOSED ones
OnFailureCountsInHalfOpen(b, cfg, t) ==
  LET b1 == [b EXCEPT !.lastFailureTime = <<t>>, !.successCount = 0]
      b2 == [b1 EXCEPT !.failureCount = @ + 1]
  IN IF b2.failureCount >= cfg.failureThreshold
       THEN [b2 EXCEPT !.state = "OPEN"]
       ELSE b2

\* onFailure()
OnFailure(b, cfg, t) ==
  LET b1 == [b EXCEPT !.lastFailureTime = <<t>>, !.successCount = 0] IN
  IF b1.state = "HALF_OPEN"
    THEN [b1 EXCEPT !.state = "OPEN"]
    ELSE LET b2 == [b1 EXCEPT !.failureCount = @ + 1] IN
         IF b2.failureCount >= cfg.failureThreshold
           THEN [b2 EXCEPT !.state = "OPEN"]
           ELSE b2

\* variant: a refused call counts as a failure at the time it is made
RefusedRestartsTimeout(b, cfg, t) == [b EXCEPT !.lastFailureTime = <<t>>]

\* the breaker as execute() leaves it when it throws CircuitOpenError: the
\* throw is the only statement of that branch
Refused(b, cfg, t) == b

Execute(c) ==
  /\ calls[c] # "running"
  /\ IF ShortCircuits(cb, config, now)
       THEN /\ calls' = [calls EXCEPT ![c] = "circuit_open"]
            /\ cb' = Refused(cb, config, now)
            /\ halfOpen' = halfOpen
       ELSE /\ calls' = [calls EXCEPT ![c] = "running"]
            /\ cb' = Entered(cb, config, now)
            /\ halfOpen' =
                 IF cb.state = "OPEN"
                   THEN [probes |-> halfOpen.probes \cup {c},
                         successes |-> 0, probeSuccesses |-> 0,
                         reopened |-> FALSE]
                 ELSE IF cb.state = "HALF_OPEN"
                   THEN [halfOpen EXCEPT !.probes = @ \cup {c}]
                 ELSE halfOpen
  /\ UNCHANGED <<now, config, streak, queueVars, postVars, workerVars>>

\* fn() resolved: this.onSuccess()
OperationResolves(c) ==
  /\ calls[c] = "running"
  /\ cb' = OnSuccess(cb, config)
  /\ calls' = [calls EXCEPT ![c] = "resolved"]
  /\ streak' = 0
  /\ halfOpen' =
       IF cb.state = "HALF_OPEN"
         THEN [probes |-> halfOpen.probes \ {c},
               successes |-> halfOpen.successes + 1,
               probeSuccesses |-> halfOpen.probeSuccesses
                                    + (IF c \in halfOpen.probes THEN 1 ELSE 0),
               reopened |-> FALSE]
         ELSE [halfOpen EXCEPT !.probes = @ \ {c}]
  /\ UNCHANGED <<now, config, queueVars, postVars, workerVars>>

\* fn() rejected: this.onFailure()
OperationRejects(c) ==
  /\ calls[c] = "running"
  /\ cb' = OnFailure(cb, config, now)
  /\ calls' = [calls EXCEPT ![c] = "rejected"]
  /\ streak' = streak + 1
  /\ halfOpen' = [probes |-> halfOpen.probes \ {c},
                  successes |-> 0, probeSuccesses |-> 0,
                  reopened |-> halfOpen.reopened \/ cb.state = "HALF_OPEN"]
  /\ UNCHANGED <<now, config, queueVars, postVars, workerVars>>

\* new CircuitOpenError(serviceName).message
CircuitOpenMessage(serviceName) ==
  IF serviceName = "openai"
    THEN "Circuit is OPEN for service \"openai\" -- request rejected to prevent cascade failure"
  ELSE IF serviceName = "twitter"
    THEN "Circuit is OPEN for service \"twitter\" -- request rejected to prevent cascade failure"
  ELSE "Circuit is OPEN for service \"test-service\" -- request rejected to prevent cascade failure"

StableMessage == "Unable to generate content right now. Please try again"

\* The message of the error OpenAIAdapter.generatePost rejects with, by how
\* its execute call ended: the catch that throws the stable message is inside
\* the wrapped function, which an open breaker never calls.
GenerationError(outcome, serviceName) ==
  IF outcome = "circuit_open" THEN CircuitOpenMessage(serviceName) ELSE StableMessage

\* the messages for which error.message.includes('not found') holds
NotFoundMessages == {"Social platform 'nonexistent' not found", "Post not found"}

\* POST /posts/generate: the response to a rejected generatePost
GenerateFailureResponse(message) ==
  IF message \in NotFoundMessages THEN [status |-> 404, error |-> message]
  ELSE [status |-> 500, error |-> IF message = "" THEN StableMessage ELSE message]

InitBreaker ==
  /\ now = 0
  /\ job_queue = <<>>
  /\ jobsIssued = 0
  /\ ret = <<>>
  /\ failCount = <<>>
  /\ posts = <<>>
  /\ decided = [p \in PostIds |-> NoDecisions]
  /\ inflight = [k \in Ticks |-> NoTick]
  /\ intervalId = [d \in Dispatchers |-> FALSE]
  /\ leaked = [d \in Dispatchers |-> 0]
  /\ tweets = [p \in PostIds |-> NoTweets]
  /\ cb = [state |-> "CLOSED", failureCount |-> 0, successCount |-> 0,
           lastFailureTime |-> <<>>]
  /\ config \in BreakerConfigs
  /\ calls = [c \in Callers |-> "idle"]
  /\ streak = 0
  /\ halfOpen = NoProbes
  /\ shutdown = [d \in Dispatchers |-> NoShutdown]
  /\ selected = [d \in Dispatchers |-> <<>>]

NextBreaker ==
  \/ \E c \in Callers : Execute(c)
  \/ \E c \in Callers : OperationResolves(c)
  \/ \E c \in Callers : OperationRejects(c)
  \/ Advance

SpecBreaker == InitBreaker /\ [][NextBreaker]_vars

----------------------------------------------------------------------------
(* Dispatchers that were each started once, on the empty store (the sweep  *)
(* of startWorker found nothing), and poll it from then on.                *)

InitPollers ==
  /\ now = 0
  /\ job_queue = <<>>
  /\ jobsIssued = 0
  /\ ret = <<>>
  /\ failCount = <<>>
  /\ posts = <<>>
  /\ decided = [p \in PostIds |-> NoDecisions]
  /\ inflight = [k \in Ticks |-> NoTick]
  /\ intervalId = [d \in Dispatchers |-> TRUE]
  /\ leaked = [d \in Dispatchers |-> 0]
  /\ tweets = [p \in PostIds |-> NoTweets]
  /\ cb = [state |-> "CLOSED", failureCount |-> 0, successCount |-> 0,
           lastFailureTime |-> <<>>]
  /\ config = TwitterCircuitConfig
  /\ calls = [c \in Callers |-> "idle"]
  /\ streak = 0
  /\ halfOpen = NoProbes
  /\ shutdown = [d \in Dispatchers |-> NoShutdown]
  /\ selected = [d \in Dispatchers |-> <<>>]

NextPollers ==
  \/ GeneratePost
  \/ HandleSlackAction
  \/ \E d \in Dispatchers : StopWorker(d)
  \/ \E d \in Dispatchers : ProcessExit(d)
  \/ \E d \in Dispatchers : Tick(d)
  \/ \E k \in Ticks : HandlerResolves(k)
  \/ \E k \in Ticks : HandlerThrows(k)
  \/ RetryDeadJob
  \/ Advance

SpecPollers == InitPollers /\ [][NextPollers]_vars

----------------------------------------------------------------------------
(* A worker over a store that already holds a job row for an approved      *)
(* record.  The store outlives the program: the row may be of a type this  *)
(* version does not know, and its payload text may have been cut short.    *)

StoredTypes == JobTypes \cup {"legacy_job"}

StoredPayloads ==
  { JsonStringify(TestPayload), << <<"postId", 1>>, <<"message">> >> }

\* the options the stored job was enqueued with: none, or { maxRetries: 1 }
StoredOpts == {NoOpts, [maxRetries |-> <<1>>, delayMs |-> <<>>]}

InitWorker ==
  /\ now = 0
  /\ \E type \in StoredTypes, text \in StoredPayloads, opts \in StoredOpts :
       job_queue = (1 :> [EnqueueRow(1, type, TestPayload, opts, 0)
                            EXCEPT !.payload = text])
  /\ jobsIssued = 1
  /\ ret = <<>>
  /\ failCount = (1 :> 0)
  /\ posts = Approved((1 :> PostRow(1, TestPayload.message)), 1, "alice", 0)
  /\ decided = [p \in PostIds |->
                  IF p = 1 THEN [NoDecisions EXCEPT !.approved = 1,
                                                    !.action = "approve",
                                                    !.actor = "alice"]
                           ELSE NoDecisions]
  /\ inflight = [k \in Ticks |-> NoTick]
  /\ intervalId = [d \in Dispatchers |-> FALSE]
  /\ leaked = [d \in Dispatchers |-> 0]
  /\ tweets = [p \in PostIds |-> NoTweets]
  /\ cb = [state |-> "CLOSED", failureCount |-> 0, successCount |-> 0,
           lastFailureTime |-> <<>>]
  /\ config = TwitterCircuitConfig
  /\ calls = [c \in Callers |-> "idle"]
  /\ streak = 0
  /\ halfOpen = NoProbes
  /\ shutdown = [d \in Dispatchers |-> NoShutdown]
  /\ selected = [d \in Dispatchers |-> <<>>]

NextWorker ==
  \/ \E d \in Dispatchers : StartWorker(d)
  \/ \E d \in Dispatchers : StopWorker(d)
  \/ \E d \in Dispatchers : ProcessExit(d)
  \/ \E d \in Dispatchers : Tick(d)
  \/ \E k \in Ticks : HandlerResolves(k)
  \/ \E k \in Ticks : HandlerThrows(k)
  \/ RetryDeadJob
  \/ Advance

SpecWorker == InitWorker /\ [][NextWorker]_vars

----------------------------------------------------------------------------
(* Properties *)

C2_OneDecision ==
  \A p \in DOMAIN posts :
    Decisions(p) >= 1 =>
      /\ decided[p].approved + decided[p].rejected = 1
      /\ decided[p].already_actioned = Decisions(p) - 1
      /\ decided[p].approved = 1 =>
           /\ decided[p].action = "approve"
           /\ posts[p].approved_by = decided[p].actor
           /\ posts[p].rejected_by = NULL
      /\ decided[p].rejected = 1 =>
           /\ decided[p].action = "reject"
           /\ posts[p].rejected_by = decided[p].actor
           /\ posts[p].approved_by = NULL
           /\ posts[p].status = "rejected"

\* two decisions were made on one record: one succeeded, one was refused
C2_Witness ==
  \E p \in DOMAIN posts :
    /\ Decisions(p) = 2
    /\ decided[p].already_actioned = 1
    /\ decided[p].actor = "alice"

\* C3: the failure that completes failureThreshold consecutive failures
\* leaves the breaker OPEN, and an execute call made while it is OPEN with
\* less than resetTimeoutMs elapsed since the last recorded failure is
\* rejected with CircuitOpenError without the wrapped operation being run.
C3_OpenRejects ==
  [][ /\ (streak' = streak + 1 /\ streak' >= config.failureThreshold)
         => cb'.state = "OPEN"
      /\ \A c \in Callers :
           ( /\ calls[c] # "running"
             /\ calls'[c] # calls[c]
             /\ cb.state = "OPEN"
             /\ cb.lastFailureTime # <<>>
             /\ now - cb.lastFailureTime[1] < config.resetTimeoutMs )
           => (calls'[c] = "circuit_open" /\ cb' = cb) ]_vars

\* a call was refused by a breaker that failureThreshold failures had opened
C3_Witness ==
  \E c \in Callers :
    /\ calls[c] = "circuit_open"
    /\ cb.state = "OPEN"
    /\ streak >= config.failureThreshold
    /\ config.failureThreshold = 3

\* the step is one that sets the number of markFailed calls made on job j
C4_Counted(j) == j \notin DOMAIN job_queue \/ failCount'[j] # failCount[j]

\* job j after its k-th markFailed call, k < max_retries
C4_Retrying(j, k) ==
  /\ job_queue'[j].status = "pending"
  /\ job_queue'[j].attempts = k
  /\ job_queue'[j].next_run_at = now + 30 * Pow2(k - 1) * 1000

\* C4: a job with maxRetries = N >= 1 is dead after its N-th consecutive
\* markFailed call; after its k-th call, 1 <= k < N, it is pending with
\* attempts = k and nextRunAt 30 * 2^(k-1) seconds after that failure.  A job
\* with maxRetries = 0 is not dead before its first markFailed call, which
\* makes it dead with attempts = 1.
C4_RetryLadder ==
  [][ \A j \in DOMAIN job_queue' :
        C4_Counted(j) =>
          LET N == job_queue'[j].max_retries
              k == failCount'[j]
          IN /\ (N >= 1 /\ k = N) => job_queue'[j].status = "dead"
             /\ (1 <= k /\ k < N) => C4_Retrying(j, k)
             /\ (N = 0 /\ k = 0) => job_queue'[j].status = "pending"
             /\ (N = 0 /\ k = 1) =>
                  (job_queue'[j].status = "dead" /\ job_queue'[j].attempts = 1) ]_vars

\* a default job (maxRetries 3) after its second failure: pending, 60 s ahead
C4_Witness ==
  \E j \in DOMAIN job_queue :
    /\ job_queue[j].max_retries = 3
    /\ failCount[j] = 2
    /\ job_queue[j].attempts = 2
    /\ job_queue[j].status = "pending"
    /\ job_queue[j].next_run_at = now + 60000

\* C4 as stated, for every N: dead after exactly N markFailed calls, and the
\* retry ladder below N.
C4_AsStated ==
  [][ \A j \in DOMAIN job_queue' :
        C4_Counted(j) =>
          LET N == job_queue'[j].max_retries
              k == failCount'[j]
          IN /\ k = N => job_queue'[j].status = "dead"
             /\ (1 <= k /\ k < N) => C4_Retrying(j, k) ]_vars

C5_Allowed ==
  { <<"pending", "approved">>, <<"pending", "rejected">>,
    <<"approved", "posted">>, <<"approved", "failed_post">> }

\* C5: a record's status changes only along pending -> approved,
\* pending -> rejected, approved -> posted, approved -> failed_post, so that
\* rejected, posted and failed_post are never left again.
C5_StatusMachine ==
  [][ \A p \in DOMAIN posts :
        posts'[p].status # posts[p].status
          => <<posts[p].status, posts'[p].status>> \in C5_Allowed ]_vars

TwitterJobs(p) ==
  { id \in DOMAIN job_queue :
      /\ job_queue[id].type = "post_to_twitter"
      /\ JsonParse(job_queue[id].payload).postId = p }

\* C6: for every record at most one post_to_twitter job is ever enqueued,
\* and one is enqueued only by the call whose outcome was approved: the
\* record's publish jobs number as many as its approved outcomes, at most 1.
C6_OnePublishJob ==
  \A p \in PostIds :
    /\ Cardinality(TwitterJobs(p)) <= 1
    /\ Cardinality(TwitterJobs(p)) = decided[p].approved
    /\ \A id \in TwitterJobs(p) : p \in DOMAIN posts /\ posts[p].approved_by # NULL

\* a record approved and then acted on again has its one publish job
C6_Witness ==
  \E p \in DOMAIN posts :
    /\ Decisions(p) = 2
    /\ decided[p].approved = 1
    /\ Cardinality(TwitterJobs(p)) = 1

\* C7: postTweet is invoked for a record only after the record was approved:
\* a tick runs the publish handler only for, and the publisher has only been
\* invoked for, records that are neither pending nor rejected.
C7_PublishAfterApproval ==
  /\ \A p \in PostIds :
       tweets[p].invoked =>
         /\ p \in DOMAIN posts
         /\ posts[p].status \notin {"pending", "rejected"}
         /\ posts[p].approved_by # NULL
         /\ decided[p].approved = 1
  /\ \A k \in Ticks :
       inflight[k].type = "post_to_twitter" =>
         /\ inflight[k].postId \in DOMAIN posts
         /\ posts[inflight[k].postId].status \notin {"pending", "rejected"}

\* a tick is publishing a record that had been approved
C7_Witness ==
  \E k \in Ticks :
    /\ inflight[k].type = "post_to_twitter"
    /\ tweets[inflight[k].postId].invoked
    /\ posts[inflight[k].postId].status = "approved"

\* C8: for every record the publisher call completes successfully at most
\* once, across approvals, retries, stuck-job recovery and dead-letter replay.
C8_PublishedOnce == \A p \in PostIds : tweets[p].published <= 1

\* C9: in every reachable state each job is held by at most one worker,
\* including after resetStuck returned an in-flight job to pending and it
\* was claimed again.
C9_OneHolder == \A id \in DOMAIN job_queue : Cardinality(Holders(id)) <= 1

\* C10: resetStuck changes exactly the jobs that are processing with
\* updatedAt more than 5 minutes before now; each becomes pending with its
\* attempts unchanged; every other job is left as it was, none is added or
\* removed, and the count returned is the number of jobs changed.
C10_ResetStuckFrame ==
  [][ QResetStuck =>
        LET old == { j \in DOMAIN job_queue :
                       /\ job_queue[j].status = "processing"
                       /\ now - job_queue[j].updated_at > 5 * 60 * 1000 }
            changed == { j \in DOMAIN job_queue : job_queue'[j] # job_queue[j] }
        IN /\ DOMAIN job_queue' = DOMAIN job_queue
           /\ changed = old
           /\ \A j \in old :
                job_queue'[j] = [job_queue[j] EXCEPT !.status = "pending",
                                                     !.updated_at = now]
           /\ ret' = <<"resetStuck", Cardinality(old)>> ]_vars

\* a sweep has just reset one job and left alone a job that has been
\* processing for exactly 5 minutes
C10_Witness ==
  /\ ret = <<"resetStuck", 1>>
  /\ jobsIssued = 2
  /\ \E j1 \in DOMAIN job_queue, j2 \in DOMAIN job_queue :
       /\ job_queue[j1].status = "pending"
       /\ job_queue[j1].updated_at = now
       /\ job_queue[j1].next_run_at < now
       /\ job_queue[j2].status = "processing"
       /\ job_queue[j2].updated_at = now - 5 * 60 * 1000

\* the pending jobs that are due in the current state
C11_Eligible ==
  { j \in DOMAIN job_queue :
      job_queue[j].status = "pending" /\ job_queue[j].next_run_at <= now }

\* C11: dequeueNext returns a job only if it was pending with nextRunAt <=
\* now, and none of the pending due jobs has a smaller nextRunAt; it moves
\* that job and no other to processing; when no pending job is due it
\* returns none and changes nothing.  So a job rescheduled by markFailed or
\* enqueued with a delay is never claimed before its nextRunAt.
C11_DequeueOldestDue ==
  [][ QDequeueNext =>
        IF C11_Eligible = {}
          THEN job_queue' = job_queue /\ ret' = <<"dequeueNext">>
          ELSE \E j \in C11_Eligible :
                 /\ \A i \in C11_Eligible :
                      job_queue[j].next_run_at <= job_queue[i].next_run_at
                 /\ DOMAIN job_queue' = DOMAIN job_queue
                 /\ job_queue'[j].status = "processing"
                 /\ job_queue'[j].attempts = job_queue[j].attempts
                 /\ job_queue'[j].next_run_at = job_queue[j].next_run_at
                 /\ \A i \in DOMAIN job_queue \ {j} : job_queue'[i] = job_queue[i]
                 /\ ret' = <<"dequeueNext", job_queue'[j]>> ]_vars

\* dequeueNext has returned the older of two due jobs; the later one, which
\* had been enqueued with a delay, is still pending
C11_Witness ==
  /\ Len(ret) = 2
  /\ ret[1] = "dequeueNext"
  /\ ret[2].next_run_at = 0
  /\ job_queue[ret[2].id].status = "processing"
  /\ \E i \in DOMAIN job_queue :
       /\ job_queue[i].status = "pending"
       /\ job_queue[i].next_run_at = 60000
       /\ job_queue[i].next_run_at <= now

\* C12: after the breaker has been OPEN for resetTimeoutMs exactly one call
\* is let through as a probe; while that probe is outstanding no other
\* execute call invokes the wrapped operation.
C12_OneProbe == Cardinality(halfOpen.probes) <= 1

\* the step is the success of an admitted call
CallSucceeds == \E c \in Callers : calls[c] = "running" /\ calls'[c] = "resolved"

\* what a success does to a HALF_OPEN breaker when it is the n-th one counted
C13_Closing(n) ==
  /\ cb'.state = "CLOSED" <=> n = config.successThreshold
  /\ cb'.state = "CLOSED" => (cb'.failureCount = 0 /\ cb'.successCount = 0)
  /\ n < config.successThreshold => cb'.state = "HALF_OPEN"

CallFails == \E c \in Callers : calls[c] = "running" /\ calls'[c] = "rejected"

\* the step lets a call through to the wrapped operation
CallAdmitted == \E c \in Callers : calls[c] # "running" /\ calls'[c] = "running"

\* C14: in HALF_OPEN one failed call moves the breaker straight back to OPEN
\* and sets lastFailureTime to the time of that failure, however many
\* successes came before; while OPEN the recorded time never moves back, and
\* a call is let through (the next probe) only when a full resetTimeoutMs
\* has passed since it.
C14_ProbeFailureReopens ==
  [][ /\ (cb.state = "HALF_OPEN" /\ CallFails)
         => (cb'.state = "OPEN" /\ cb'.lastFailureTime = <<now>>)
      /\ (cb.state = "OPEN" /\ cb'.state = "OPEN")
         => cb'.lastFailureTime[1] >= cb.lastFailureTime[1]
      /\ (cb.state = "OPEN" /\ CallAdmitted)
         => /\ now - cb.lastFailureTime[1] >= config.resetTimeoutMs
            /\ cb'.state = "HALF_OPEN" ]_vars

\* a probe that followed a probe success has failed and re-opened the
\* breaker at the time of the failure
C14_Witness ==
  /\ cb.state = "OPEN"
  /\ halfOpen.reopened
  /\ cb.lastFailureTime = <<now>>
  /\ cb.failureCount = 0
  /\ \E c \in Callers : calls[c] = "rejected"

\* C15: a CLOSED breaker stays CLOSED while fewer than failureThreshold
\* failures have occurred since the last success: its failure count is the
\* number of failures since the last success, a success sets it to 0, and
\* the breaker opens on the failure that brings that number to
\* failureThreshold and on no other step.
C15_ClosedUntilThreshold ==
  [][ cb.state = "CLOSED" =>
        /\ cb.failureCount = streak
        /\ streak < config.failureThreshold
        /\ CallSucceeds => (cb'.state = "CLOSED" /\ cb'.failureCount = 0)
        /\ CallFails => /\ cb'.state = "OPEN" <=> streak' = config.failureThreshold
                        /\ cb'.state \in {"OPEN", "CLOSED"}
                        /\ cb'.failureCount = streak'
        /\ cb'.state # "CLOSED" => CallFails ]_vars

\* after a success, two failures in a row have left a breaker with
\* failureThreshold 3 CLOSED
C15_Witness ==
  /\ config.failureThreshold = 3
  /\ cb.state = "CLOSED"
  /\ streak = 2
  /\ cb.failureCount = 2
  /\ \E c \in Callers : calls[c] = "resolved"

\* the step is a handleSlackAction call for record p
DecisionStep(p) ==
  /\ Len(ret') = 3
  /\ ret'[1] = "handleSlackAction"
  /\ ret'[2] = p
  /\ (ret' # ret \/ decided' # decided)

\* C16: a decision delivered for a record that is not pending yields
\* already_actioned, and one for a record that does not exist yields
\* not_found; either way nothing is written: the posts table (status,
\* approved_by, rejected_by, approved_at) is unchanged and no job is enqueued.
C16_RefusedDecisionWritesNothing ==
  [][ \A p \in PostIds :
        DecisionStep(p) =>
          /\ p \notin DOMAIN posts => ret'[3].outcome = "not_found"
          /\ (p \in DOMAIN posts /\ posts[p].status # "pending")
               => ret'[3].outcome = "already_actioned"
          /\ ret'[3].outcome \in {"not_found", "already_actioned"}
               => /\ posts' = posts
                  /\ job_queue' = job_queue
                  /\ jobsIssued' = jobsIssued ]_vars

\* a reject delivered after alice's approval was refused: the record is
\* still approved by alice alone and has its one publish job
C16_Witness ==
  /\ Len(ret) = 3
  /\ ret[3].outcome = "already_actioned"
  /\ ret[2] \in DOMAIN posts
  /\ posts[ret[2]].status = "approved"
  /\ posts[ret[2]].approved_by = "alice"
  /\ posts[ret[2]].rejected_by = NULL
  /\ Cardinality(TwitterJobs(ret[2])) = 1

\* C17: at most one of approved_by and rejected_by is non-null; each of
\* approved_by, rejected_by and approved_at, once written, is never written
\* again; approved_at is set exactly with approved_by; and once either actor
\* is set the status is not pending.
C17_ActorsSetOnce ==
  [][ \A p \in DOMAIN posts :
        /\ posts[p].approved_by = NULL \/ posts[p].rejected_by = NULL
        /\ posts[p].approved_at # <<>> <=> posts[p].approved_by # NULL
        /\ (posts[p].approved_by # NULL \/ posts[p].rejected_by # NULL)
             => (posts[p].status # "pending" /\ posts'[p].status # "pending")
        /\ posts[p].approved_by # NULL => posts'[p].approved_by = posts[p].approved_by
        /\ posts[p].rejected_by # NULL => posts'[p].rejected_by = posts[p].rejected_by
        /\ posts[p].approved_at # <<>> => posts'[p].approved_at = posts[p].approved_at ]_vars

\* a record approved at time 0 by U123 still shows that approval after a
\* later decision by someone else, a failed publish and a passage of time
C17_Witness ==
  \E p \in DOMAIN posts :
    /\ posts[p].approved_by = "U123"
    /\ posts[p].approved_at = <<0>>
    /\ posts[p].rejected_by = NULL
    /\ posts[p].status = "failed_post"
    /\ Decisions(p) = 2
    /\ now > 0

\* C18: every already_actioned result carries a message naming the prior
\* action on the record: that it has already been approved when the record
\* was approved, and that it has already been rejected when it was rejected.
C18_MessageNamesPriorAction ==
  [][ \A p \in DOMAIN posts :
        (DecisionStep(p) /\ ret'[3].outcome = "already_actioned") =>
          /\ posts[p].approved_by # NULL
               => ret'[3].message = <<"The post has already been approved">>
          /\ posts[p].rejected_by # NULL
               => ret'[3].message = <<"The post has already been rejected">> ]_vars

\* the step ends tick k by reporting its job's outcome to the queue
C19_Finishes(k) ==
  inflight[k] # NoTick /\ inflight'[k] = NoTick /\ job_queue' # job_queue

\* the job is one processJob has a handler for and can decode
C19_Runnable(job) ==
  job.type \in JobTypes /\ \A i \in DOMAIN job.payload : Len(job.payload[i]) = 2

\* C19: a tick that finishes reports exactly one outcome for the job it
\* claimed, and for no other job: either markCompleted (status completed,
\* attempts and last_error untouched), which happens only when the handler
\* returned, or markFailed (attempts + 1, last_error set, status pending or
\* dead), which happens whenever the handler, the payload decoding or an
\* unknown type threw; the job is never left processing.
C19_OneOutcomePerTick ==
  [][ \A k \in Ticks :
        C19_Finishes(k) =>
          LET j == inflight[k].job
              old == job_queue[j]
              new == job_queue'[j]
              p == inflight[k].postId
          IN /\ \A i \in DOMAIN job_queue \ {j} : job_queue'[i] = job_queue[i]
             /\ new.status \in {"completed", "pending", "dead"}
             /\ new.status = "completed" =>
                  /\ new.attempts = old.attempts
                  /\ new.last_error = old.last_error
                  /\ C19_Runnable(old)
             /\ new.status \in {"pending", "dead"} =>
                  /\ new.attempts = old.attempts + 1
                  /\ new.last_error # NULL
             /\ (old.type = "post_to_twitter" /\ C19_Runnable(old)) =>
                  /\ new.status = "completed"
                       <=> tweets'[p].published = tweets[p].published + 1
                  /\ new.status = "completed" <=> posts'[p].status = "posted" ]_vars

\* a job of a type the worker does not know was claimed and reported failed
C19_Witness ==
  \E j \in DOMAIN job_queue :
    /\ job_queue[j].type = "legacy_job"
    /\ job_queue[j].status = "pending"
    /\ job_queue[j].attempts = 1
    /\ job_queue[j].last_error = "Unknown job type"
    /\ Holders(j) = {}

\* C20: whenever content generation fails, the error surfaced to the caller
\* of the generation path is the single stable message, whatever the cause,
\* including a call short-circuited by the open OpenAI breaker.
C20_StableGenerationError ==
  \A c \in Callers :
    (config.serviceName = "openai" /\ calls[c] \in {"rejected", "circuit_open"})
      => GenerateFailureResponse(GenerationError(calls[c], config.serviceName)).error
           = StableMessage

----------------------------------------------------------------------------
\* C21: completed is terminal and dead is terminal except through retryDead:
\* whatever the workers do, a completed job never changes status again, and
\* a dead job changes status only in a step that is retryDead on that job.
C21_TerminalStatuses ==
  [][\A id \in DOMAIN job_queue \cap DOMAIN job_queue' :
       /\ job_queue[id].status = "completed"
            => job_queue'[id].status = "completed"
       /\ (job_queue[id].status = "dead" /\ job_queue'[id].status # "dead")
            => job_queue' = RetryDead(job_queue, id, now)]_vars

\* C22: retryDead(id) on a dead job returns true and leaves it pending with
\* attempts 0, last_error cleared and next_run_at = now, so that it is due
\* at once with all its retries; on a missing job or a job of any other
\* status it returns false and changes nothing.  No other row changes.
C22_RetryDeadResets ==
  [][ \A id \in JobIds :
        RetryDeadCall(id) =>
          IF id \in DOMAIN job_queue /\ job_queue[id].status = "dead"
            THEN /\ ret' = <<"retryDead", TRUE>>
                 /\ DOMAIN job_queue' = DOMAIN job_queue
                 /\ job_queue'[id].status = "pending"
                 /\ job_queue'[id].attempts = 0
                 /\ job_queue'[id].last_error = NULL
                 /\ job_queue'[id].next_run_at = now
                 /\ job_queue'[id].max_retries = job_queue[id].max_retries
                 /\ job_queue'[id].type = job_queue[id].type
                 /\ job_queue'[id].payload = job_queue[id].payload
                 /\ id \in { j \in DOMAIN job_queue' :
                              /\ job_queue'[j].status = "pending"
                              /\ job_queue'[j].next_run_at <= now' }
                 /\ \A j \in DOMAIN job_queue \ {id} : job_queue'[j] = job_queue[j]
            ELSE /\ ret' = <<"retryDead", FALSE>>
                 /\ job_queue' = job_queue ]_vars

\* retryDead has just returned true for a dead-lettered job, after the
\* clock has moved on: the job is pending, due now, with no
\* attempts and no error, next to a job that was not touched
C22_Witness ==
  /\ ret = <<"retryDead", TRUE>>
  /\ now > 0
  /\ \E j \in DOMAIN job_queue, o \in DOMAIN job_queue :
       /\ j # o
       /\ job_queue[j].status = "pending"
       /\ job_queue[j].attempts = 0
       /\ job_queue[j].last_error = NULL
       /\ job_queue[j].next_run_at = now
       /\ job_queue[j].updated_at = now
       /\ failCount[j] = 0
       /\ job_queue[o].status = "dead"

\* C23: enqueue adds exactly one job, under an id no job has, with status
\* pending, attempts 0, max_retries as given (3 when none is given) and
\* next_run_at = now + delayMs (now when none is given); it returns the id
\* and leaves every existing job as it was.  And dequeueNext never returns
\* a job whose next_run_at is still ahead, so a job enqueued with a delay is
\* not claimed before the delay has elapsed.
C23_EnqueueAddsOnePending ==
  [][ /\ \A opts \in EnqueueOpts :
           EnqueueCall(opts) =>
             \E id \in DOMAIN job_queue' \ DOMAIN job_queue :
               /\ DOMAIN job_queue' = DOMAIN job_queue \cup {id}
               /\ ret' = <<"enqueue", id>>
               /\ job_queue'[id].id = id
               /\ job_queue'[id].status = "pending"
               /\ job_queue'[id].attempts = 0
               /\ job_queue'[id].last_error = NULL
               /\ job_queue'[id].max_retries =
                    (IF opts.maxRetries = <<>> THEN 3 ELSE opts.maxRetries[1])
               /\ job_queue'[id].next_run_at =
                    (IF opts.delayMs = <<>> THEN now ELSE now + opts.delayMs[1])
               /\ JsonParse(job_queue'[id].payload) = TestPayload
               /\ \A j \in DOMAIN job_queue : job_queue'[j] = job_queue[j]
      /\ QDequeueNext =>
           \A j \in DOMAIN job_queue :
             job_queue[j].next_run_at > now =>
               /\ job_queue'[j] = job_queue[j]
               /\ ret' # <<"dequeueNext", job_queue'[j]>> ]_vars

\* a job enqueued at 0 with a delay of a minute and max_retries 1 is still
\* pending and untouched after a dequeueNext at 0 has returned none
C23_Witness ==
  /\ ret = <<"dequeueNext">>
  /\ now = 0
  /\ \E j \in DOMAIN job_queue :
       /\ job_queue[j].status = "pending"
       /\ job_queue[j].next_run_at = 60000
       /\ job_queue[j].max_retries = 1
       /\ job_queue[j].attempts = 0

\* C24: a record's status is failed_post only once its publish job has
\* used up its retries and is dead; a publish failure that the queue will
\* retry leaves the record out of failed_post.
C24_FailedPostOnlyWhenDead ==
  \A p \in DOMAIN posts :
    posts[p].status = "failed_post"
      => \E id \in TwitterJobs(p) : job_queue[id].status = "dead"

\* the send_slack_approval jobs whose payload names record p
ApprovalJobs(q, p) ==
  { id \in DOMAIN q :
      /\ q[id].type = "send_slack_approval"
      /\ JsonParse(q[id].payload).postId = p }

\* C25: a generatePost that succeeds (the platform exists and the provider
\* returns) creates exactly one record, with status pending, and enqueues
\* exactly one job, of type send_slack_approval, pending, whose payload
\* names that record; a generatePost that fails (unknown platform, or the
\* provider throws) creates no record and enqueues no job.
C25_GenerateWritesBothOrNothing ==
  [][ \A slug \in Slugs, llm \in LlmOutcomes :
        GeneratePostCall(slug, llm) =>
          IF slug = "x" /\ llm = "resolves"
            THEN \E p \in DOMAIN posts' \ DOMAIN posts,
                    id \in DOMAIN job_queue' \ DOMAIN job_queue :
                   /\ DOMAIN posts' = DOMAIN posts \cup {p}
                   /\ DOMAIN job_queue' = DOMAIN job_queue \cup {id}
                   /\ posts'[p].status = "pending"
                   /\ posts'[p].message = LlmContent
                   /\ job_queue'[id].status = "pending"
                   /\ job_queue'[id].attempts = 0
                   /\ ApprovalJobs(job_queue', p) = {id}
                   /\ \A o \in DOMAIN posts : posts'[o] = posts[o]
                   /\ \A j \in DOMAIN job_queue : job_queue'[j] = job_queue[j]
            ELSE posts' = posts /\ job_queue' = job_queue ]_vars

\* a record has been generated and its approval job is in the queue
C25_Witness ==
  \E p \in DOMAIN posts :
    /\ posts[p].status = "pending"
    /\ \E id \in ApprovalJobs(job_queue, p) :
         /\ job_queue[id].status = "pending"
         /\ Cardinality(DOMAIN job_queue) = 1

----------------------------------------------------------------------------
(* routes/slack.ts: POST /slack/actions, and verifySlackSignature of       *)
(* integrations/slack.ts.  A hex digest is modelled by what went into it   *)
(* (HMAC-SHA256 is taken to be collision free) together with its length in *)
(* bytes; a signature string is 'v0=' before such a digest.                *)

\* process.env.SLACK_SIGNING_SECRET
SigningSecret == "test-signing-secret-32-chars-long!!"

\* crypto.createHmac('sha256', secret).update(base).digest('hex')
Hmac(secret, base) == [hex |-> <<secret, base>>, bytes |-> 64]

\* `v0:${timestamp}:${body}`
SigBasestring(timestamp, body) == <<"v0", timestamp, body>>

\* 'v0=' + digest
V0(digest) == [hex |-> digest.hex, bytes |-> 3 + digest.bytes]

\* the header 'v0=invalidsignature' of the route test
InvalidSignature == [hex |-> <<"invalidsignature">>, bytes |-> 19]

\* crypto.timingSafeEqual(Buffer.from(a), Buffer.from(b)): a RangeError
\* when the byte lengths differ
TimingSafeEqual(a, b) ==
  IF a.bytes # b.bytes THEN "RangeError"
  ELSE IF a = b THEN "true" ELSE "false"

Abs(n) == IF n < 0 THEN -n ELSE n

\* verifySlackSignature(slackSignature, timestamp, body) at time t
VerifySlackSignature(slackSignature, timestamp, body, t) ==
  IF Abs((t \div 1000) - timestamp) > 300 THEN "false"
  ELSE TimingSafeEqual(V0(Hmac(SigningSecret, SigBasestring(timestamp, body))),
                       slackSignature)

\* The url-encoded bodies sent: a block_actions payload with one action, or
\* with none ('payload={}').
SlackBodies ==
  [actionId : {"approve_", "reject_", "unknown_action"}, postId : PostIds,
   userId : UserIds, userName : UserNames]
    \cup {[actionId |-> "none", postId |-> 1, userId |-> "U123", userName |-> <<>>]}

\* The x-slack-signature headers tried for a request with the given
\* timestamp and body, absent headers being <<>>: Slack's own, one made
\* with another secret, one made for another body, and a short string.
SignaturesFor(timestamp, body) ==
  { <<>>,
    <<V0(Hmac(SigningSecret, SigBasestring(timestamp, body)))>>,
    <<V0(Hmac("wrong-secret-that-is-long-enough!!", SigBasestring(timestamp, body)))>>,
    <<V0(Hmac(SigningSecret, SigBasestring(timestamp, [body EXCEPT !.userId = "U999"])))>>,
    <<InvalidSignature>> }

\* x-slack-request-timestamp, in seconds: now, 300 s ago, 301 s ago, or absent
TimestampsAt(t) == { <<>>, <<t \div 1000>>, <<(t \div 1000) - 300>>, <<(t \div 1000) - 301>> }

\* the signature is Slack's HMAC of this timestamp and raw body
ValidHmac(signature, timestamp, body) ==
  /\ signature # <<>>
  /\ timestamp # <<>>
  /\ signature[1] = V0(Hmac(SigningSecret, SigBasestring(timestamp[1], body)))

\* res.status(code).json(...)
Response(code, text) == <<"POST /slack/actions", code, text>>

\* 4. Map service outcomes to HTTP responses
OutcomeResponse(result) ==
  IF result.outcome = "not_found" THEN Response(404, result.message[1])
  ELSE IF result.outcome = "already_actioned" THEN Response(400, result.message[1])
  ELSE IF result.outcome = "rejected" THEN Response(200, "Post rejected successfully")
  ELSE <<"POST /slack/actions", 200, "Post approved and queued for publishing",
         result.jobId[1]>>

\* router.post('/actions', ...) for one request.  Every body of SlackBodies
\* is non-empty url-encoded text, so req.rawBody is set and the
\* 'Missing raw body' return is not taken.
SlackActions(signature, timestamp, body) ==
  LET refused(code, text) ==
        /\ ret' = Response(code, text)
        /\ UNCHANGED <<posts, decided, job_queue, jobsIssued, failCount>>
      verdict == VerifySlackSignature(signature[1], timestamp[1], body, now)
  IN
  /\ IF signature = <<>> \/ timestamp = <<>>
       THEN refused(401, "Unauthorized")
     ELSE IF verdict = "RangeError"
       THEN refused(500, "Input buffers must have the same byte length")
     ELSE IF verdict = "false"
       THEN refused(401, "Unauthorized")
     ELSE IF body.actionId = "none"
       THEN refused(400, "No action provided")
     ELSE IF body.actionId \notin {"approve_", "reject_"}
       THEN refused(400, "Invalid action")
     ELSE /\ SlackActionWrites(body.actionId, body.postId,
                               Actor(body.userId, body.userName))
          /\ ret' = OutcomeResponse(ServiceResult(body.actionId, body.postId))
  /\ UNCHANGED <<now, tweets, workerVars, breakerVars>>

PostSlackActions ==
  \E body \in SlackBodies, timestamp \in TimestampsAt(now) :
    \E signature \in SignaturesFor(IF timestamp = <<>> THEN 0 ELSE timestamp[1], body) :
      SlackActions(signature, timestamp, body)

NextRoutes ==
  \/ GeneratePost
  \/ PostSlackActions
  \/ Advance

SpecRoutes == Init /\ [][NextRoutes]_vars

\* C26: POST /slack/actions answers 401, changes no record and enqueues no
\* job for every request whose signature headers are missing or whose
\* x-slack-signature is not the HMAC of its timestamp and raw body, however
\* long the signature string sent is.
C26_BadSignatureIs401 ==
  [][ \A body \in SlackBodies, timestamp \in TimestampsAt(now) :
        \A signature \in SignaturesFor(IF timestamp = <<>> THEN 0 ELSE timestamp[1], body) :
          (SlackActions(signature, timestamp, body)
             /\ ~ValidHmac(signature, timestamp, body))
            => /\ ret'[2] = 401
               /\ posts' = posts
               /\ job_queue' = job_queue ]_vars

\* C27: when the request for approval cannot be delivered, its
\* send_slack_approval job being dead-lettered, the record's status is
\* failed_approval_send.
C27_DeadApprovalMarksRecord ==
  \A p \in DOMAIN posts :
    (\E id \in ApprovalJobs(job_queue, p) : job_queue[id].status = "dead")
      => posts[p].status = "failed_approval_send"

----------------------------------------------------------------------------
(* index.ts: shutdown(signal).  It stops the worker's timer, asks the HTTP *)
(* server to close, exiting with code 0 from the close callback, and sets  *)
(* a 10 s timer that exits with code 1.  Nothing in it refers to the ticks *)
(* in progress.                                                            *)

FORCED_EXIT_MS == 10000

\* the ticks of process d that are in progress
TicksOf(d) == { k \in Ticks : inflight[k].proc = d }

\* those of them that are awaiting their handler's external call
AwaitingOf(d) == { k \in TicksOf(d) : inflight[k].type \in JobTypes }

\* process.on('SIGTERM' / 'SIGINT'): stopWorker(); server.close(...);
\* setTimeout(..., 10_000)
Shutdown(d) ==
  /\ shutdown[d].phase = "running"
  /\ intervalId[d]
  /\ intervalId' = [intervalId EXCEPT ![d] = FALSE]
  /\ shutdown' = [shutdown EXCEPT ![d] = [phase |-> "signalled", at |-> <<now>>,
                                          code |-> <<>>]]
  /\ UNCHANGED <<now, queueVars, postVars, inflight, leaked, selected, breakerVars>>

\* process.exit(code): the process's ticks end with it
Exited(d, code) ==
  /\ shutdown' = [shutdown EXCEPT ![d] = [phase |-> "exited", at |-> @.at,
                                          code |-> <<code>>]]
  /\ inflight' = [k \in Ticks |-> IF k \in TicksOf(d) THEN NoTick ELSE inflight[k]]
  /\ UNCHANGED <<now, queueVars, postVars, intervalId, leaked, selected, breakerVars>>

\* the callback of server.close runs once the HTTP connections have ended
ServerCloses(d) == shutdown[d].phase = "signalled"

\* server.close(() => process.exit(0))
ServerClosed(d) == ServerCloses(d) /\ Exited(d, 0)

\* setTimeout(() => process.exit(1), 10_000)
ForcedExit(d) ==
  /\ shutdown[d].phase = "signalled"
  /\ now >= shutdown[d].at[1] + FORCED_EXIT_MS
  /\ Exited(d, 1)

\* app.listen(port, () => startWorker()) of a process not yet signalled
Listen(d) == shutdown[d].phase = "running" /\ StartWorker(d)

NextShutdown ==
  \/ \E d \in Dispatchers : Listen(d)
  \/ \E d \in Dispatchers : Tick(d)
  \/ \E k \in Ticks : HandlerResolves(k)
  \/ \E k \in Ticks : HandlerThrows(k)
  \/ \E d \in Dispatchers : Shutdown(d)
  \/ \E d \in Dispatchers : ServerClosed(d)
  \/ \E d \in Dispatchers : ForcedExit(d)
  \/ Advance

SpecShutdown == InitWorker /\ [][NextShutdown]_vars

\* C28: on SIGTERM/SIGINT the poll loop is stopped, and a tick that is
\* already running finishes (its job reaches markCompleted or markFailed)
\* before the process exits, unless the forced-exit timeout fires first: a
\* signalled process starts no tick, and it exits with code 0 only when none
\* of its ticks is in progress.
C28_ExitAfterTick ==
  [][ \A d \in Dispatchers :
        /\ shutdown[d].phase = "signalled"
             => TicksOf(d)' \subseteq TicksOf(d)
        /\ (shutdown[d].phase = "signalled" /\ shutdown'[d].code = <<0>>)
             => AwaitingOf(d) = {} ]_vars

\* C29: within one dispatcher process at most one tick is in progress at
\* any time, each tick running its job to markCompleted or markFailed
\* before the next tick starts, however long the handler takes.
C29_OneTickPerDispatcher ==
  \A d \in Dispatchers : Cardinality(TicksOf(d)) <= 1

----------------------------------------------------------------------------
(* markFailed called from several processes on one database file.  Its     *)
(* SELECT and its UPDATE are two statements outside any transaction: calls *)
(* of one process follow one another (the driver is synchronous), while    *)
(* another process's statements may run between the two.                   *)

\* the calls that have read job id and not yet written
Selecting(id) == { d \in Dispatchers : selected[d] # <<>> /\ selected[d][1].id = id }

\* const job = db.prepare('SELECT * FROM job_queue WHERE id = ?').get(id);
\* if (!job) return;
MarkFailedSelect(d) ==
  /\ selected[d] = <<>>
  /\ \E id \in JobIds, message \in ErrorMessages :
       IF id \in DOMAIN job_queue
         THEN /\ failCount[id] + Cardinality(Selecting(id)) < MaxFails
              /\ selected' = [selected EXCEPT ![d] = <<job_queue[id], message>>]
              /\ ret' = ret
         ELSE /\ selected' = selected
              /\ ret' = <<"markFailed">>
  /\ UNCHANGED <<now, job_queue, jobsIssued, failCount, postVars, inflight,
                 intervalId, leaked, shutdown, breakerVars>>

\* the UPDATE of the branch the row read selects
MarkFailedWrite(d) ==
  /\ selected[d] # <<>>
  /\ LET job == selected[d][1] IN
       /\ job_queue' = MarkFailedUpdate(job_queue, job, selected[d][2], now)
       /\ failCount' = [failCount EXCEPT ![job.id] = @ + 1]
  /\ selected' = [selected EXCEPT ![d] = <<>>]
  /\ ret' = <<"markFailed">>
  /\ UNCHANGED <<now, jobsIssued, postVars, inflight, intervalId, leaked, shutdown,
                 breakerVars>>

NextMarkFailed ==
  \/ QEnqueue
  \/ QDequeueNext
  \/ \E d \in Dispatchers : MarkFailedSelect(d)
  \/ \E d \in Dispatchers : MarkFailedWrite(d)
  \/ Advance

SpecMarkFailed == Init /\ [][NextMarkFailed]_vars

\* C30: markFailed's read of attempts and its write act as one step: once
\* the calls on a job have returned, its attempts is the number of calls
\* made (two concurrent calls add 2), and the job is dead exactly when that
\* number has reached max_retries.
C30_NoLostUpdate ==
  \A id \in DOMAIN job_queue :
    (Selecting(id) = {} /\ failCount[id] > 0) =>
      /\ job_queue[id].attempts = failCount[id]
      /\ (job_queue[id].status = "dead")
           <=> (failCount[id] >= job_queue[id].max_retries)

\* C31: a job with max_retries = N >= 1 never has attempts above N.
C31_AttemptsWithinBudget ==
  \A id \in DOMAIN job_queue :
    job_queue[id].max_retries >= 1
      => job_queue[id].attempts <= job_queue[id].max_retries

\* C32: no job is stored with status failed: after every step each job's
\* status is one of pending, processing, completed, dead, and every
\* markFailed leaves the job it reports on either dead or pending with a
\* next_run_at newly set, ahead of now.
C32_NoFailedStatus ==
  [][ /\ \A id \in DOMAIN job_queue' :
           job_queue'[id].status \in {"pending", "processing", "completed", "dead"}
      /\ QMarkFailed =>
           \A id \in DOMAIN job_queue :
             job_queue'[id] # job_queue[id] =>
               /\ job_queue'[id].attempts = job_queue[id].attempts + 1
               /\ \/ job_queue'[id].status = "dead"
                  \/ /\ job_queue'[id].status = "pending"
                     /\ job_queue'[id].next_run_at > now ]_vars

\* markFailed has just rescheduled one job, which is pending with its
\* next_run_at ahead, next to a job that an earlier report dead-lettered
C32_Witness ==
  /\ ret = <<"markFailed">>
  /\ \E j \in DOMAIN job_queue, o \in DOMAIN job_queue :
       /\ job_queue[j].status = "pending"
       /\ job_queue[j].attempts = 1
       /\ job_queue[j].last_error # NULL
       /\ job_queue[j].next_run_at = now + 30000
       /\ job_queue[o].status = "dead"
       /\ job_queue[o].last_error # NULL

\* C33: a record's external_id is null until the record has been published:
\* in every reachable state external_id is set exactly when the record's
\* status is posted.
C33_ExternalIdIffPosted ==
  \A p \in DOMAIN posts :
    (posts[p].external_id # NULL) <=> (posts[p].status = "posted")

\* C34: once a record exists, its message and its provenance fields
\* (llm_provider, llm_model, prompt, raw_output) are changed by no step:
\* not by approvePost, rejectPost, publishToSocial or either job handler.
C34_ProvenanceWriteOnce ==
  [][ \A p \in DOMAIN posts :
        /\ p \in DOMAIN posts'
        /\ posts'[p].message = posts[p].message
        /\ posts'[p].llm_provider = posts[p].llm_provider
        /\ posts'[p].llm_model = posts[p].llm_model
        /\ posts'[p].prompt = posts[p].prompt
        /\ posts'[p].raw_output = posts[p].raw_output ]_vars

\* a record that was sent for approval, approved and published still has
\* the content it was generated with
C34_Witness ==
  \E p \in DOMAIN posts :
    /\ posts[p].status = "posted"
    /\ posts[p].approval_source # NULL
    /\ posts[p].approved_by # NULL
    /\ posts[p].message = LlmContent
    /\ posts[p].llm_provider = "openai"

----------------------------------------------------------------------------
(* The worker left running: processes that start and keep polling, a clock *)
(* that keeps advancing, handlers that end.                                *)

\* the pending jobs not yet due
Waiting == { id \in DOMAIN job_queue :
               job_queue[id].status = "pending" /\ job_queue[id].next_run_at > now }

\* time reaches the next_run_at of the waiting job that is due first
AdvanceToDue ==
  /\ \A k \in Ticks : inflight[k].type \in JobTypes \cup {"none"}
  /\ \E id \in Waiting :
       /\ \A o \in Waiting : job_queue[id].next_run_at <= job_queue[o].next_run_at
       /\ now' = job_queue[id].next_run_at
  /\ UNCHANGED <<queueVars, postVars, workerVars, breakerVars>>

NextLive ==
  \/ \E d \in Dispatchers : StartWorker(d)
  \/ \E d \in Dispatchers : Tick(d)
  \/ \E k \in Ticks : HandlerResolves(k)
  \/ \E k \in Ticks : HandlerThrows(k)
  \/ Advance
  \/ AdvanceToDue

\* setInterval keeps firing in a started process; every handler call ends;
\* the clock reaches every next_run_at
FairLive ==
  /\ WF_vars(StartWorker(1))
  /\ \A d \in Dispatchers : WF_vars(Tick(d))
  /\ \A k \in Ticks : WF_vars(HandlerResolves(k) \/ HandlerThrows(k))
  /\ WF_vars(AdvanceToDue)

SpecLive == InitWorker /\ [][NextLive]_vars /\ FairLive

\* C35: while a dispatcher keeps polling, time keeps advancing and every
\* handler call returns or throws, a job in the queue eventually is
\* completed or dead: it does not go between pending and processing forever.
C35_JobsFinish ==
  \A id \in 1..1 :
    (id \in DOMAIN job_queue /\ job_queue[id].status \in {"pending", "processing"})
      ~> (job_queue[id].status \in {"completed", "dead"})

\* a job that was rescheduled twice, the second time to a moment past the
\* last of the clock points, has been dead-lettered
C35_Witness ==
  \E id \in DOMAIN job_queue :
    /\ job_queue[id].status = "dead"
    /\ job_queue[id].attempts = 3
    /\ job_queue[id].max_retries = 3
    /\ now > 360000

\* C36: an execute call refused with CircuitOpenError leaves the breaker as
\* it was: state stays OPEN and failureCount, successCount and
\* lastFailureTime keep their values, so that refused calls do not put off
\* the moment from which a probe is let through.
C36_RefusalChangesNothing ==
  [][ \A c \in Callers :
        (Execute(c) /\ calls'[c] = "circuit_open") =>
          /\ cb.state = "OPEN"
          /\ cb'.state = "OPEN"
          /\ cb'.failureCount = cb.failureCount
          /\ cb'.successCount = cb.successCount
          /\ cb'.lastFailureTime = cb.lastFailureTime
          /\ Elapsed(cb', now') = Elapsed(cb, now) ]_vars

\* a call has been refused by a breaker that a failure at 0 opened; a
\* minute after that failure lastFailureTime is still 0
C36_Witness ==
  /\ \E c \in Callers : calls[c] = "circuit_open"
  /\ cb.state = "OPEN"
  /\ cb.lastFailureTime = <<0>>
  /\ now = 60000

\* C37: a call admitted while the breaker was CLOSED that ends after the
\* breaker has opened alters neither the open period nor the probe count:
\* its failure while OPEN leaves lastFailureTime alone, and its success
\* while HALF_OPEN adds nothing to successCount and does not close the
\* breaker.
C37_LateCallsIgnored ==
  [][ \A c \in Callers \ halfOpen.probes :
        /\ (OperationRejects(c) /\ cb.state = "OPEN")
             => cb'.lastFailureTime = cb.lastFailureTime
        /\ (OperationResolves(c) /\ cb.state = "HALF_OPEN")
             => (cb'.successCount = cb.successCount /\ cb'.state = "HALF_OPEN") ]_vars

----------------------------------------------------------------------------
(* The breaker around an operation that recovers: it may fail until the    *)
(* last of the clock points and succeeds from then on, callers keep        *)
(* calling and the clock keeps advancing.                                  *)

Recovery == CHOOSE t \in ClockPoints : \A u \in ClockPoints : u <= t

\* time reaches the end of the reset timeout of an OPEN breaker
AdvancePastTimeout ==
  /\ cb.state = "OPEN"
  /\ Elapsed(cb, now) < config.resetTimeoutMs
  /\ now' = cb.lastFailureTime[1] + config.resetTimeoutMs
  /\ UNCHANGED <<queueVars, postVars, workerVars, breakerVars>>

\* fn() rejects, which it does only before it has recovered; its failures
\* are followed at the clock points
RejectsBeforeRecovery(c) ==
  /\ now \in ClockPoints
  /\ now < Recovery
  /\ OperationRejects(c)

NextBreakerLive ==
  \/ \E c \in Callers : Execute(c)
  \/ \E c \in Callers : OperationResolves(c)
  \/ \E c \in Callers : RejectsBeforeRecovery(c)
  \/ Advance
  \/ AdvancePastTimeout

FairBreakerLive ==
  /\ \A c \in Callers : WF_vars(Execute(c))
  /\ \A c \in Callers : WF_vars(OperationResolves(c) \/ RejectsBeforeRecovery(c))
  /\ WF_vars(Advance)
  /\ WF_vars(AdvancePastTimeout)

SpecBreakerLive == InitBreaker /\ [][NextBreakerLive]_vars /\ FairBreakerLive

\* C38: if from some point on the wrapped operation always succeeds, while
\* callers keep calling execute and time keeps advancing, a breaker that is
\* OPEN or HALF_OPEN eventually is CLOSED again.
C38_BreakerRecovers ==
  (cb.state \in {"OPEN", "HALF_OPEN"}) ~> (cb.state = "CLOSED")

\* the openai breaker, opened at 60000, has let probes through from 180000
\* on, when its reset timeout ended, and two successes have closed it
C38_Witness ==
  /\ config = OpenaiCircuitConfig
  /\ cb.state = "CLOSED"
  /\ cb.lastFailureTime = <<60000>>
  /\ halfOpen.successes = 2
  /\ now = 180000

\* C39: the outcome of a record's publish job and the record's status agree:
\* while the job is completed the record is posted and has its external_id,
\* and while the job is dead the record is failed_post.
C39_JobAndRecordAgree ==
  \A p \in DOMAIN posts : \A id \in TwitterJobs(p) :
    /\ job_queue[id].status = "completed"
         => (posts[p].status = "posted" /\ posts[p].external_id # NULL)
    /\ job_queue[id].status = "dead"
         => posts[p].status = "failed_post"

----------------------------------------------------------------------------
(* The end of a publish job in two steps, as the code takes them:           *)
(* publishToSocial writes the record, and only when its promise has        *)
(* settled does tick write the job. The two writes are separate statements *)
(* outside any transaction, so another process's writes can fall between.  *)

\* the tick whose processJob promise has settled
Settled(tick, outcome) == [tick EXCEPT !.type = outcome]

\* publishToSocial: postTweet returned; UPDATE posts SET status = 'posted'
PublishReturns(k) ==
  LET tick == inflight[k] IN
  /\ tick.type = "post_to_twitter"
  /\ tweets[tick.postId].published < MaxTweets
  /\ posts' = Posted(posts, tick.postId, TweetId)
  /\ tweets' = [tweets EXCEPT ![tick.postId].published = @ + 1]
  /\ inflight' = [inflight EXCEPT ![k] = Settled(tick, "fulfilled")]
  /\ UNCHANGED <<now, queueVars, decided, intervalId, leaked, shutdown, selected, breakerVars>>

\* publishToSocial: postTweet threw; UPDATE posts SET status = 'failed_post'
PublishThrows(k) ==
  LET tick == inflight[k] IN
  /\ tick.type = "post_to_twitter"
  /\ failCount[tick.job] < MaxFails
  /\ posts' = FailedPost(posts, tick.postId)
  /\ failCount' = [failCount EXCEPT ![tick.job] = @ + 1]
  /\ inflight' = [inflight EXCEPT ![k] = Settled(tick, "rejected")]
  /\ UNCHANGED <<now, job_queue, jobsIssued, ret, decided, tweets, intervalId, leaked,
                 shutdown, selected, breakerVars>>

\* tick after await processJob(job): markCompleted, or markFailed in catch
TickSettles(k) ==
  LET tick == inflight[k] IN
  /\ tick.type \in {"fulfilled", "rejected"}
  /\ IF tick.type = "fulfilled"
       THEN job_queue' = MarkCompleted(job_queue, tick.job, now)
       ELSE \E message \in ErrorMessages :
              job_queue' = MarkFailed(job_queue, tick.job, message, now)
  /\ inflight' = [inflight EXCEPT ![k] = NoTick]
  /\ UNCHANGED <<now, jobsIssued, ret, failCount, postVars, intervalId, leaked,
                 shutdown, selected, breakerVars>>

\* an approved record whose publish job is in the store
InitPublish ==
  /\ InitWorker
  /\ job_queue[1].type = "post_to_twitter"
  /\ JsonDecodes(job_queue[1].payload)

NextPublish ==
  \/ \E d \in Dispatchers : StartWorker(d)
  \/ \E d \in Dispatchers : Tick(d)
  \/ \E k \in Ticks : PublishReturns(k)
  \/ \E k \in Ticks : PublishThrows(k)
  \/ \E k \in Ticks : TickSettles(k)
  \/ Advance

SpecPublish == InitPublish /\ [][NextPublish]_vars

----------------------------------------------------------------------------
(* startWorker and stopWorker called in any order, as exported functions   *)
(* can be.                                                                 *)

\* any call of startWorker, as long as the process has timers to spare
StartWorkerAnytime(d) ==
  /\ leaked[d] < MaxLeaked
  /\ StartWorkerCall(d)

NextStartStop ==
  \/ \E d \in Dispatchers : StartWorkerAnytime(d)
  \/ \E d \in Dispatchers : StopWorkerCall(d)
  \/ \E d \in Dispatchers : Tick(d)
  \/ \E k \in Ticks : HandlerResolves(k)
  \/ \E k \in Ticks : HandlerThrows(k)
  \/ Advance

SpecStartStop == InitWorker /\ [][NextStartStop]_vars

\* C40: whatever the order of the startWorker and stopWorker calls,
\* startWorker runs resetStuck before a poll of the timer it sets, and once
\* stopWorker has returned the process claims no job until startWorker is
\* called again.
C40_NoPollAfterStop ==
  [][ \A d \in Dispatchers :
        /\ StartWorkerCall(d) => job_queue' = ResetStuck(job_queue, now)
        /\ ~intervalId[d] => ~Tick(d) ]_vars

====
